---- MODULE Spec2Model ----
(***************************************************************************)
(* Background task manager of oh-my-opencode-slim (BackgroundTaskManager): *)
(* the start queue with its concurrency ceiling, the start sequence of a   *)
(* task (session creation, optional pane delay, prompt attempts over the   *)
(* fallback chain), the session.status / session.deleted handlers, result  *)
(* extraction, cancel and cleanup.                                         *)
(*                                                                         *)
(* The manager runs on one JavaScript thread: every step below is the code *)
(* that runs between two suspension points (await), taken atomically.      *)
(* Task identifiers are modelled as 1, 2, ... in launch order (the code    *)
(* draws them at random and never compares them); the session the host     *)
(* creates for task t is session t (the host hands out fresh identifiers). *)
(***************************************************************************)
EXTENDS Integers, Sequences, FiniteSets, TLC

\* ---------------------------------------------------------------- bounds
\* tasks launched when only the start queue and the start sequences run
MaxTasks == 3
\* tasks launched when the host's session events are delivered too
MaxEventTasks == 1
\* largest configured concurrency ceiling
MaxCeiling == 2
\* session.messages requests in flight at a time
MaxFetches == 1
\* messages of a session history, when every history is gone through
MaxMessages == 2
\* tasks launched when the callers' calls and their return values are followed
MaxApiTasks == 2
\* callers of waitForCompletion
MaxWaiters == 2
\* length of a configured fallback chain, and of a model identifier
MaxChain == 3

\* ------------------------------------------------------ program constants
FALLBACK_FAILOVER_TIMEOUT_MS == 15000

TaskIds == 1..MaxTasks
Sessions == 1..MaxTasks
NoSession == 0
NoTask == 0
ForeignSession == MaxTasks + 1
Undefined == "undefined"
NoAgent == "undefined"
NoModel == <<>>
Waiters == 1..MaxWaiters
NoWaiter == 0

ActiveStatuses == {"pending", "starting", "running"}
TerminalStatuses == {"completed", "failed", "cancelled"}

VARIABLES
  taskObj,              \* the BackgroundTask objects, by task id ("none": not created)
  tasks,                \* keys of the registry Map this.tasks
  tasksBySessionId,     \* session -> task id, NoTask when absent
  agentBySessionId,     \* session -> agent name, NoAgent when absent
  startQueue,           \* this.startQueue, task ids
  activeStarts,         \* this.activeStarts
  completionResolvers,  \* this.completionResolvers: task id -> the waiter its
                        \* resolver resumes, NoWaiter when absent
  waiters,              \* the callers of waitForCompletion and their promises
  maxConcurrentStarts,  \* configuration: background.maxConcurrentStarts
  tmuxEnabled,          \* configuration: tmux.enabled
  fallbackEnabled,      \* configuration: fallback.enabled
  start,                \* position of each startTask() call and its local variables
  fetching,             \* extractAndCompleteTask() calls awaiting session.messages
  notifications,        \* host: notification prompts sent to the parent, per task
  aborted,              \* host: sessions whose abort was requested
  prompts,              \* host: the session.prompt calls made for each task
  call,                 \* the last call a caller made, with the value it returned
  admitted,             \* history: the startTask() calls in order
  cancelledPending,     \* history: tasks cancelled by cancel() while pending
  idleAfterCancel,      \* history: tasks that got an idle event after cancel() while running
  deletedRunning        \* history: tasks whose session.deleted event came while running,
                        \* their start sequence over

vars == <<taskObj, tasks, tasksBySessionId, agentBySessionId, startQueue,
          activeStarts, completionResolvers, waiters, maxConcurrentStarts,
          tmuxEnabled, fallbackEnabled, start, fetching, notifications, aborted,
          prompts, call, admitted, cancelledPending, idleAfterCancel,
          deletedRunning>>

config == <<maxConcurrentStarts, tmuxEnabled, fallbackEnabled>>

\* Everything but the record of the last call
manager ==
  <<taskObj, tasks, tasksBySessionId, agentBySessionId, startQueue,
    activeStarts, completionResolvers, waiters, start, fetching,
    notifications, aborted, prompts, admitted, cancelledPending,
    idleAfterCancel, deletedRunning>>

Range(s) == {s[i] : i \in 1..Len(s)}
SeqsUpTo(S, n) == UNION {[1..k -> S] : k \in 0..n}

\* --------------------------------------------------------- delegation rules
SUBAGENT_NAMES == <<"explorer", "librarian", "oracle", "designer", "fixer">>
ORCHESTRATOR_NAME == "orchestrator"

\* The own properties of the object SUBAGENT_DELEGATION_RULES
SUBAGENT_DELEGATION_RULES ==
  [orchestrator |-> SUBAGENT_NAMES,
   fixer |-> <<>>,
   designer |-> <<>>,
   explorer |-> <<>>,
   librarian |-> <<>>,
   oracle |-> <<>>]

\* A JavaScript value with a length: an array and its items, or a function
\* and its number of parameters.
Array(items) == [isArray |-> TRUE, length |-> Len(items), items |-> items]
Function(arity) == [isArray |-> FALSE, length |-> arity, items |-> <<>>]

\* SUBAGENT_DELEGATION_RULES is an object literal: a property it does not
\* own is looked up in Object.prototype, whose property "constructor" is the
\* function Object (one parameter).
ObjectPrototype == [constructor |-> Function(1)]

\* getSubagentRules: SUBAGENT_DELEGATION_RULES[agentName] ?? ['explorer']
GetSubagentRules(agentName) ==
  IF agentName \in DOMAIN SUBAGENT_DELEGATION_RULES
  THEN Array(SUBAGENT_DELEGATION_RULES[agentName])
  ELSE IF agentName \in DOMAIN ObjectPrototype
  THEN ObjectPrototype[agentName]
  ELSE Array(<<"explorer">>)

\* Mutant of ParentAgentName: a session that is not indexed counts as an
\* explorer's.
ParentAgentName_Explorer(parentSessionId) ==
  IF parentSessionId \in Sessions /\ agentBySessionId[parentSessionId] # NoAgent
  THEN agentBySessionId[parentSessionId]
  ELSE "explorer"

\* this.agentBySessionId.get(parentSessionId) ?? 'orchestrator'
ParentAgentName(parentSessionId) ==
  IF parentSessionId \in Sessions /\ agentBySessionId[parentSessionId] # NoAgent
  THEN agentBySessionId[parentSessionId]
  ELSE ORCHESTRATOR_NAME

\* isAgentAllowed: "true", "false", or "TypeError" when the call throws
\* (allowedSubagents.includes is not a function)
IsAgentAllowed(parentSessionId, requestedAgent) ==
  LET allowedSubagents == GetSubagentRules(ParentAgentName(parentSessionId)) IN
  IF allowedSubagents.length = 0 THEN "false"
  ELSE IF ~allowedSubagents.isArray THEN "TypeError"
  ELSE IF requestedAgent \in Range(allowedSubagents.items) THEN "true"
  ELSE "false"

\* getAllowedSubagents
GetAllowedSubagents(parentSessionId) ==
  GetSubagentRules(ParentAgentName(parentSessionId))

\* Mutant of CalculateToolPermissions: the delegation tools are always on.
CalculateToolPermissions_AlwaysOn(agentName) ==
  [background_task |-> TRUE, task |-> TRUE]

\* calculateToolPermissions
CalculateToolPermissions(agentName) ==
  LET allowedSubagents == GetSubagentRules(agentName) IN
  IF allowedSubagents.length = 0
  THEN [background_task |-> FALSE, task |-> FALSE]
  ELSE [background_task |-> TRUE, task |-> TRUE]

\* ------------------------------------------------------- model identifiers
\* A model identifier is its sequence of characters; NoModel (the empty
\* sequence) stands for an undefined or empty entry, which the code treats
\* alike (!model).
ModelPA == <<"p", "/", "a">>
ModelQB == <<"q", "/", "b">>
BadModel == <<"b", "a", "d">>
SlashFirst == <<"/", "a">>
SlashLast == <<"p", "/">>

RECURSIVE ModelStr(_)
ModelStr(model) ==
  IF model = <<>> THEN "" ELSE Head(model) \o ModelStr(Tail(model))

\* String.indexOf('/'), 0-based, -1 when absent
RECURSIVE IndexOfSlash(_, _)
IndexOfSlash(model, from) ==
  IF from > Len(model) THEN -1
  ELSE IF model[from] = "/" THEN from - 1
  ELSE IndexOfSlash(model, from + 1)

Null == [providerID |-> <<>>, modelID |-> <<>>]

\* Mutant of ParseModelReference: a separator at the end is accepted.
ParseModelReference_SlashAtEnd(model) ==
  LET slashIndex == IndexOfSlash(model, 1) IN
  IF slashIndex <= 0 \/ slashIndex >= Len(model) THEN Null
  ELSE [providerID |-> SubSeq(model, 1, slashIndex),
        modelID |-> SubSeq(model, slashIndex + 2, Len(model))]

ParseModelReference(model) ==
  LET slashIndex == IndexOfSlash(model, 1) IN
  IF slashIndex <= 0 \/ slashIndex >= Len(model) - 1 THEN Null
  ELSE [providerID |-> SubSeq(model, 1, slashIndex),
        modelID |-> SubSeq(model, slashIndex + 2, Len(model))]

\* The configuration the manager is constructed with: agents[agent].model and
\* fallback.chains[agent].
ConfiguredPrimary(agentName) ==
  CASE agentName = "explorer" -> ModelPA
    [] agentName = "fixer" -> BadModel
    [] agentName = "oracle" -> BadModel
    [] OTHER -> NoModel

ConfiguredChain(agentName) ==
  CASE agentName = "explorer" -> <<ModelPA, ModelQB, ModelQB>>
    [] agentName = "fixer" -> <<SlashFirst, SlashLast, ModelQB>>
    [] OTHER -> <<>>

\* Mutant of DedupInto: a model already seen is pushed again.
RECURSIVE DedupInto_SeenIgnored(_, _)
DedupInto_SeenIgnored(chain, rest) ==
  IF rest = <<>> THEN chain
  ELSE LET model == Head(rest) IN
       IF model = NoModel
       THEN DedupInto_SeenIgnored(chain, Tail(rest))
       ELSE DedupInto_SeenIgnored(Append(chain, model), Tail(rest))

\* The loop of resolveFallbackChain over [primary, ...configuredChain]
RECURSIVE DedupInto(_, _)
DedupInto(chain, rest) ==
  IF rest = <<>> THEN chain
  ELSE LET model == Head(rest) IN
       IF model = NoModel \/ model \in Range(chain)
       THEN DedupInto(chain, Tail(rest))
       ELSE DedupInto(Append(chain, model), Tail(rest))

\* resolveFallbackChain, given what the configuration holds for the agent
ResolveChain(primary, configuredChain) ==
  DedupInto(<<>>, <<primary>> \o configuredChain)

ResolveFallbackChain(agentName) ==
  ResolveChain(ConfiguredPrimary(agentName), ConfiguredChain(agentName))

TimeoutMs == IF fallbackEnabled THEN FALLBACK_FAILOVER_TIMEOUT_MS ELSE 0

\* Mutant of AttemptModels: the chain is resolved whether fallback is enabled
\* or not.
AttemptModels_ChainAlways(agentName) ==
  LET chain == ResolveFallbackChain(agentName)
  IN IF Len(chain) > 0 THEN chain ELSE <<NoModel>>

\* attemptModels of startTask
AttemptModels(agentName) ==
  LET chain == IF fallbackEnabled THEN ResolveFallbackChain(agentName) ELSE <<>>
  IN IF Len(chain) > 0 THEN chain ELSE <<NoModel>>

RECURSIVE JoinStr(_, _)
JoinStr(strs, sep) ==
  IF strs = <<>> THEN ""
  ELSE IF Len(strs) = 1 THEN strs[1]
  ELSE strs[1] \o sep \o JoinStr(Tail(strs), sep)

\* ------------------------------------------------------ result extraction
\* A message is [role, parts]; a part is [type, text], text "" when the part
\* carries none.
RECURSIVE PartTexts(_)
PartTexts(parts) ==
  IF parts = <<>> THEN <<>>
  ELSE LET part == Head(parts) IN
       IF part.type \in {"text", "reasoning"} /\ part.text # ""
       THEN <<part.text>> \o PartTexts(Tail(parts))
       ELSE PartTexts(Tail(parts))

\* Mutant of ExtractedContent: the messages of every role are read.
RECURSIVE ExtractedContent_EveryRole(_)
ExtractedContent_EveryRole(messages) ==
  IF messages = <<>> THEN <<>>
  ELSE PartTexts(Head(messages).parts) \o ExtractedContent_EveryRole(Tail(messages))

RECURSIVE ExtractedContent(_)
ExtractedContent(messages) ==
  IF messages = <<>> THEN <<>>
  ELSE LET message == Head(messages) IN
       IF message.role = "assistant"
       THEN PartTexts(message.parts) \o ExtractedContent(Tail(messages))
       ELSE ExtractedContent(Tail(messages))

ResponseText(messages) == JoinStr(ExtractedContent(messages), "\n\n")

\* The histories the host may return from session.messages
Histories ==
  { <<>>,
    << [role |-> "user", parts |-> <<[type |-> "text", text |-> "Q"]>>],
       [role |-> "assistant", parts |-> <<[type |-> "text", text |-> "A"]>>],
       [role |-> "assistant",
        parts |-> <<[type |-> "tool", text |-> "T"],
                    [type |-> "reasoning", text |-> "B"],
                    [type |-> "text", text |-> ""]>>] >> }

LaunchAgents == {"explorer"}

\* ------------------------------------------------------------ the manager
\* The mutable state as one record, so that a method that calls other
\* methods is the composition of their effects.
Cur ==
  [taskObj |-> taskObj, tasks |-> tasks, tasksBySessionId |-> tasksBySessionId,
   agentBySessionId |-> agentBySessionId, startQueue |-> startQueue,
   activeStarts |-> activeStarts, completionResolvers |-> completionResolvers,
   waiters |-> waiters, start |-> start, fetching |-> fetching,
   notifications |-> notifications, aborted |-> aborted, prompts |-> prompts,
   admitted |-> admitted]

\* The variables take the values of record n (evaluated once)
Becomes(n) ==
  \E m \in {n} :
    /\ taskObj' = m.taskObj
    /\ tasks' = m.tasks
    /\ tasksBySessionId' = m.tasksBySessionId
    /\ agentBySessionId' = m.agentBySessionId
    /\ startQueue' = m.startQueue
    /\ activeStarts' = m.activeStarts
    /\ completionResolvers' = m.completionResolvers
    /\ waiters' = m.waiters
    /\ start' = m.start
    /\ fetching' = m.fetching
    /\ notifications' = m.notifications
    /\ aborted' = m.aborted
    /\ prompts' = m.prompts
    /\ admitted' = m.admitted

NewTask(agentName) ==
  [status |-> "pending", sessionId |-> NoSession, agent |-> agentName,
   result |-> Undefined, error |-> Undefined, parentSessionId |-> "parent"]

NoTaskObj ==
  [status |-> "none", sessionId |-> NoSession, agent |-> NoAgent,
   result |-> Undefined, error |-> Undefined, parentSessionId |-> ""]

\* A startTask() call: where it stands (idle: not called; create, delay,
\* prompt: the await it is suspended at; done: returned) and its locals
NotStarted == [pc |-> "idle", attempt |-> 0, errors |-> <<>>]
Returned == [pc |-> "done", attempt |-> 0, errors |-> <<>>]

\* sendCompletionNotification: the text sent to the parent session
NotificationMessage(task) ==
  IF task.status = "completed" THEN "completed"
  ELSE "failed: " \o task.error

\* Mutant of AlreadyCompleted: a cancelled task counts as completed too.
AlreadyCompleted_Cancelled(task) == task.status \in TerminalStatuses

\* The guard at the head of completeTask
AlreadyCompleted(task) == task.status \in {"completed", "failed"}

\* A caller of waitForCompletion: idle (has not called), blocked (awaits the
\* promise) or returned; timer: the setTimeout of its call is pending; value:
\* what the promise was resolved with, "null" or the task, of which the
\* status it had at that moment is kept; by: what resolved the promise.
NoWait ==
  [state |-> "idle", task |-> NoTask, timer |-> FALSE, value |-> Undefined,
   by |-> Undefined]

\* resolve(value) on the promise of waiter w: settles it once
Resolve(m, w, value, by) ==
  IF m.waiters[w].state = "blocked"
  THEN [m EXCEPT !.waiters[w].state = "returned",
                 !.waiters[w].value = value,
                 !.waiters[w].by = by]
  ELSE m

\* const resolver = this.completionResolvers.get(task.id);
\* if (resolver) { resolver(task); this.completionResolvers.delete(task.id) }
ResolveWaiting(m, t) ==
  LET resolver == m.completionResolvers[t] IN
  IF resolver # NoWaiter
  THEN [Resolve(m, resolver, m.taskObj[t].status, "resolver")
          EXCEPT !.completionResolvers[t] = NoWaiter]
  ELSE m

CompleteTask(m, t, status, resultOrError) ==
  IF AlreadyCompleted(m.taskObj[t]) THEN m
  ELSE
    LET task == [m.taskObj[t] EXCEPT
                   !.status = status,
                   !.result = IF status = "completed" THEN resultOrError ELSE @,
                   !.error = IF status = "completed" THEN @ ELSE resultOrError]
        sid == task.sessionId
    IN ResolveWaiting(
         [m EXCEPT
            !.taskObj[t] = task,
            !.tasksBySessionId =
               IF sid # NoSession THEN [@ EXCEPT ![sid] = NoTask] ELSE @,
            !.agentBySessionId =
               IF sid # NoSession THEN [@ EXCEPT ![sid] = NoAgent] ELSE @,
            !.aborted = IF sid # NoSession THEN @ \cup {sid} ELSE @,
            !.notifications[t] =
               IF task.parentSessionId # ""
               THEN Append(@, NotificationMessage(task)) ELSE @], t)

\* startTask up to its first await (session.create)
StartTask(m, t, by) ==
  LET m1 == [m EXCEPT !.taskObj[t].status = "starting",
                      !.activeStarts = @ + 1,
                      !.admitted = Append(@, [id |-> t, behind |-> m.startQueue,
                                              by |-> by])]
  IN IF m1.taskObj[t].status = "cancelled"
     THEN CompleteTask(m1, t, "cancelled", "Task cancelled before start")
     ELSE [m1 EXCEPT !.start[t].pc = "create"]

\* Mutant of CanAdmit: the ceiling is compared with <=.
CanAdmit_OffByOne(m) ==
  m.activeStarts <= maxConcurrentStarts /\ Len(m.startQueue) > 0

\* The admission test of processQueue
CanAdmit(m) ==
  m.activeStarts < maxConcurrentStarts /\ Len(m.startQueue) > 0

\* Mutant of Dequeue: the queue is popped at its end.
Dequeue_Last(m) ==
  [task |-> m.startQueue[Len(m.startQueue)],
   rest |-> SubSeq(m.startQueue, 1, Len(m.startQueue) - 1)]

\* Mutant of Dequeue: the head of the queue is read and left in place.
Dequeue_Peek(m) == [task |-> Head(m.startQueue), rest |-> m.startQueue]

\* startQueue.shift()
Dequeue(m) == [task |-> Head(m.startQueue), rest |-> Tail(m.startQueue)]

RECURSIVE ProcessQueue(_, _)
ProcessQueue(m, by) ==
  IF CanAdmit(m)
  THEN LET d == Dequeue(m) IN
       ProcessQueue(StartTask([m EXCEPT !.startQueue = d.rest], d.task, by), by)
  ELSE m

\* Mutant of Finally: the queue is not processed again.
Finally_NoRetrigger(m, t) ==
  [m EXCEPT !.activeStarts = @ - 1, !.start[t] = Returned]

\* Mutant of Finally: the counter is left as it is.
Finally_CounterKept(m, t) ==
  ProcessQueue([m EXCEPT !.start[t] = Returned], "finally")

\* Mutant of Finally: a task whose start failed is queued again.
Finally_Retry(m, t) ==
  ProcessQueue([m EXCEPT !.activeStarts = @ - 1, !.start[t] = Returned,
                         !.startQueue =
                            IF m.taskObj[t].status = "failed"
                            THEN Append(@, t) ELSE @],
               "finally")

\* The finally block of startTask
Finally(m, t) ==
  ProcessQueue([m EXCEPT !.activeStarts = @ - 1, !.start[t] = Returned],
               "finally")

\* Mutant of StartFailed: the error is swallowed, the task is not completed.
StartFailed_Swallowed(m, t, errorMessage) == Finally(m, t)

\* The outer catch of startTask, then its finally block
StartFailed(m, t, errorMessage) ==
  Finally(CompleteTask(m, t, "failed", errorMessage), t)

\* The for loop over attemptModels from attempt i, up to its next await: an
\* identifier that does not parse is recorded and the loop goes on.
RECURSIVE RunAttempts(_, _, _, _)
RunAttempts(m, t, i, errors) ==
  LET models == AttemptModels(m.taskObj[t].agent) IN
  IF i > Len(models)
  THEN StartFailed(m, t, "All fallback models failed. " \o JoinStr(errors, " | "))
  ELSE LET model == models[i] IN
       IF model # NoModel /\ ParseModelReference(model) = Null
       THEN RunAttempts(m, t, i + 1,
              Append(errors, ModelStr(model) \o ": Invalid fallback model format: "
                               \o ModelStr(model)))
       ELSE [m EXCEPT !.start[t] = [pc |-> "prompt", attempt |-> i,
                                    errors |-> errors],
                      !.prompts[t] =
                         Append(@, [model |-> model,
                                    tools |-> CalculateToolPermissions(
                                                m.taskObj[t].agent),
                                    outcome |-> "pending"])]

\* The label an attempt's error is recorded under
AttemptLabel(model) == IF model # NoModel THEN ModelStr(model) ELSE "default-model"

\* this.tasksBySessionId.get(sessionId), then this.tasks.get(taskId)
TrackedTask(m, sessionId) ==
  IF sessionId \in Sessions /\ m.tasksBySessionId[sessionId] \in m.tasks
  THEN m.tasksBySessionId[sessionId] ELSE NoTask

\* Mutant of IdleTask: the task is found by its sessionId field and its status
\* is not looked at.
IdleTask_Unguarded(sessionId, statusType) ==
  LET found == {t \in tasks : sessionId # NoSession
                              /\ taskObj[t].sessionId = sessionId}
  IN IF statusType = "idle" /\ found # {} THEN CHOOSE t \in found : TRUE
     ELSE NoTask

\* Mutant of IdleTask: the session the event names is not looked at.
IdleTask_AnySession(sessionId, statusType) ==
  LET found == {t \in tasks : taskObj[t].status = "running"
                              /\ taskObj[t].sessionId # NoSession}
  IN IF statusType = "idle" /\ found # {} THEN CHOOSE t \in found : TRUE
     ELSE NoTask

\* handleSessionStatus: the task whose result extraction the event starts,
\* NoTask when the event is ignored
IdleTask(sessionId, statusType) ==
  LET t == TrackedTask(Cur, sessionId) IN
  IF /\ t # NoTask
     /\ taskObj[t].status = "running"
     /\ statusType = "idle"
     /\ taskObj[t].sessionId # NoSession
  THEN t ELSE NoTask

\* handleSessionDeleted: whether the event cancels a task
DeletionAccepted(sessionId) ==
  LET t == TrackedTask(Cur, sessionId) IN
  /\ t # NoTask
  /\ taskObj[t].status \in {"running", "pending"}

\* Mutant of RemoveFirst: the queue is left as it is.
RemoveFirst_Kept(queue, t) == queue

\* startQueue.findIndex + splice: the first entry of task t removed
RECURSIVE RemoveFirst(_, _)
RemoveFirst(queue, t) ==
  IF queue = <<>> THEN <<>>
  ELSE IF Head(queue) = t THEN Tail(queue)
  ELSE <<Head(queue)>> \o RemoveFirst(Tail(queue), t)

\* cancel(): what it does to one pending, starting or running task
CancelOne(m, t) ==
  LET inStartQueue == m.taskObj[t].status = "pending"
      m1 == [m EXCEPT !.completionResolvers[t] = NoWaiter,
                      !.taskObj[t].status = "cancelled"]
      m2 == IF inStartQueue
            THEN [m1 EXCEPT !.startQueue = RemoveFirst(@, t)] ELSE m1
  IN CompleteTask(m2, t, "cancelled", "Cancelled by user")

\* cancel() without an identifier: the loop over this.tasks.values(), in
\* insertion order
RECURSIVE CancelFrom(_, _)
CancelFrom(m, t) ==
  IF t > MaxTasks THEN m
  ELSE IF t \in m.tasks /\ m.taskObj[t].status \in ActiveStatuses
  THEN CancelFrom(CancelOne(m, t), t + 1)
  ELSE CancelFrom(m, t + 1)

\* Mutant of CancelCount: every task of the registry is counted.
CancelCount_Registry(m, t) == Cardinality(m.tasks)

\* cancel() without an identifier: the count it returns
RECURSIVE CancelCount(_, _)
CancelCount(m, t) ==
  IF t > MaxTasks THEN 0
  ELSE IF t \in m.tasks /\ m.taskObj[t].status \in ActiveStatuses
  THEN 1 + CancelCount(CancelOne(m, t), t + 1)
  ELSE CancelCount(m, t + 1)

\* --------------------------------------------------------------- actions
\* The record of a call: the function, its arguments and, as a tuple of one
\* value, what it returned. NoCall: a call whose return value nobody looks at.
NoCall == [fn |-> "none", args |-> <<>>, result |-> <<>>]

Created == {t \in TaskIds : taskObj[t].status # "none"}

\* The configurations the manager is constructed with when session events
\* are delivered
EventConfigs ==
  { [ceiling |-> 1, tmux |-> TRUE, fallback |-> FALSE],
    [ceiling |-> 2, tmux |-> FALSE, fallback |-> TRUE] }

\* ... and when only the start queue and the start sequences run
QueueConfigs ==
  { [ceiling |-> n, tmux |-> FALSE, fallback |-> FALSE] : n \in 1..MaxCeiling }

RECURSIVE SumFetching(_)
SumFetching(t) == IF t = 0 THEN 0 ELSE fetching[t] + SumFetching(t - 1)

Constructed(configs) ==
  /\ taskObj = [t \in TaskIds |-> NoTaskObj]
  /\ tasks = {}
  /\ tasksBySessionId = [s \in Sessions |-> NoTask]
  /\ agentBySessionId = [s \in Sessions |-> NoAgent]
  /\ startQueue = <<>>
  /\ activeStarts = 0
  /\ completionResolvers = [t \in TaskIds |-> NoWaiter]
  /\ waiters = [w \in Waiters |-> NoWait]
  /\ \E c \in configs :
       /\ maxConcurrentStarts = c.ceiling
       /\ tmuxEnabled = c.tmux
       /\ fallbackEnabled = c.fallback
  /\ start = [t \in TaskIds |-> NotStarted]
  /\ fetching = [t \in TaskIds |-> 0]
  /\ notifications = [t \in TaskIds |-> <<>>]
  /\ aborted = {}
  /\ prompts = [t \in TaskIds |-> <<>>]
  /\ call = NoCall
  /\ admitted = <<>>
  /\ cancelledPending = {}
  /\ idleAfterCancel = {}
  /\ deletedRunning = {}

Init == Constructed(EventConfigs)

QueueInit == Constructed(QueueConfigs)

\* launch(opts)
Launch(agentName, limit) ==
  /\ Cardinality(Created) < limit
  /\ LET t == Cardinality(Created) + 1
         m == [Cur EXCEPT !.taskObj[t] = NewTask(agentName),
                          !.tasks = @ \cup {t},
                          !.startQueue = Append(@, t)]
     IN Becomes(ProcessQueue(m, "launch"))
  /\ call' = NoCall
  /\ UNCHANGED <<config, cancelledPending, idleAfterCancel, deletedRunning>>

\* startTask resumes after session.create
CreateReturns(t, outcome) ==
  /\ start[t].pc = "create"
  /\ IF outcome = "ok"
     THEN LET m == [Cur EXCEPT !.taskObj[t].sessionId = t,
                               !.tasksBySessionId[t] = t,
                               !.agentBySessionId[t] = taskObj[t].agent,
                               !.taskObj[t].status = "running"]
          IN IF tmuxEnabled
             THEN Becomes([m EXCEPT !.start[t].pc = "delay"])
             ELSE Becomes(RunAttempts(m, t, 1, <<>>))
     ELSE Becomes(StartFailed(Cur, t,
            IF outcome = "noid" THEN "Failed to create background session"
            ELSE "host error"))
  /\ call' = NoCall
  /\ UNCHANGED <<config, cancelledPending, idleAfterCancel, deletedRunning>>

\* startTask resumes after the pane delay
DelayElapses(t) ==
  /\ start[t].pc = "delay"
  /\ Becomes(RunAttempts(Cur, t, 1, <<>>))
  /\ call' = NoCall
  /\ UNCHANGED <<config, cancelledPending, idleAfterCancel, deletedRunning>>

\* startTask resumes after promptWithTimeout
PromptReturns(t, outcome) ==
  /\ start[t].pc = "prompt"
  /\ outcome = "timeout" => TimeoutMs > 0
  /\ LET i == start[t].attempt
         model == AttemptModels(taskObj[t].agent)[i]
         msg == IF outcome = "timeout"
                THEN "Prompt timed out after " \o ToString(TimeoutMs) \o "ms"
                ELSE "host error"
         m == [Cur EXCEPT !.prompts[t][Len(prompts[t])].outcome = outcome]
     IN IF outcome = "ok"
        THEN Becomes(Finally(m, t))
        ELSE Becomes(RunAttempts(m, t, i + 1,
               Append(start[t].errors, AttemptLabel(model) \o ": " \o msg)))
  /\ call' = NoCall
  /\ UNCHANGED <<config, cancelledPending, idleAfterCancel, deletedRunning>>

\* The task object a session was created for, registered or not
TaskOfSession(sessionId) ==
  {t \in TaskIds : sessionId # NoSession /\ taskObj[t].sessionId = sessionId}

\* handleSessionStatus(event): what it does to the manager
SessionStatusHandled(sessionId, statusType) ==
  /\ LET t == IdleTask(sessionId, statusType) IN
     IF t # NoTask
     THEN /\ SumFetching(MaxTasks) < MaxFetches
          /\ Becomes([Cur EXCEPT !.fetching[t] = @ + 1])
     ELSE Becomes(Cur)
  /\ idleAfterCancel' = idleAfterCancel \cup
       {t \in TaskOfSession(sessionId) :
          /\ statusType = "idle"
          /\ taskObj[t].status = "cancelled"
          /\ taskObj[t].error = "Cancelled by user"}
  /\ UNCHANGED <<config, cancelledPending, deletedRunning>>

\* handleSessionStatus(event)
HandleSessionStatus(sessionId, statusType) ==
  SessionStatusHandled(sessionId, statusType) /\ call' = NoCall

\* ... the event it was called with kept
HandleSessionStatusOf(sessionId, statusType) ==
  /\ SessionStatusHandled(sessionId, statusType)
  /\ call' = [fn |-> "handleSessionStatus", args |-> <<sessionId, statusType>>,
              result |-> <<>>]

\* extractAndCompleteTask resumes after session.messages: what it does to
\* the manager
MessagesReturned(t, outcome, messages) ==
  /\ fetching[t] > 0
  /\ LET m == [Cur EXCEPT !.fetching[t] = @ - 1]
         responseText == ResponseText(messages)
     IN IF outcome = "ok"
        THEN Becomes(CompleteTask(m, t, "completed",
               IF responseText # "" THEN responseText ELSE "(No output)"))
        ELSE Becomes(CompleteTask(m, t, "failed", "host error"))
  /\ UNCHANGED <<config, cancelledPending, idleAfterCancel, deletedRunning>>

MessagesReturn(t, outcome, messages) ==
  MessagesReturned(t, outcome, messages) /\ call' = NoCall

\* ... the history the host answered with kept
MessagesReturnKept(t, outcome, messages) ==
  /\ MessagesReturned(t, outcome, messages)
  /\ call' = [fn |-> "session.messages", args |-> <<t, outcome>>,
              result |-> <<messages>>]

\* handleSessionDeleted(event): what it does to the manager
SessionDeletedHandled(sessionId) ==
  /\ IF DeletionAccepted(sessionId)
     THEN LET t == TrackedTask(Cur, sessionId) IN
          /\ Becomes(ResolveWaiting(
                [Cur EXCEPT
                   !.taskObj[t].status = "cancelled",
                   !.taskObj[t].error = "Session deleted",
                   !.tasksBySessionId[sessionId] = NoTask,
                   !.agentBySessionId[sessionId] = NoAgent], t))
          /\ deletedRunning' = deletedRunning \cup
               (IF taskObj[t].status = "running" /\ start[t].pc = "done"
                THEN {t} ELSE {})
     ELSE Becomes(Cur) /\ UNCHANGED deletedRunning
  /\ UNCHANGED <<config, cancelledPending, idleAfterCancel>>

\* handleSessionDeleted(event)
HandleSessionDeleted(sessionId) ==
  SessionDeletedHandled(sessionId) /\ call' = NoCall

\* ... the event it was called with kept
HandleSessionDeletedOf(sessionId) ==
  /\ SessionDeletedHandled(sessionId)
  /\ call' = [fn |-> "handleSessionDeleted", args |-> <<sessionId>>,
              result |-> <<>>]

\* cancel(taskId): what it does to the manager
CancelTask(taskId) ==
  /\ IF taskId \in tasks /\ taskObj[taskId].status \in ActiveStatuses
     THEN /\ Becomes(CancelOne(Cur, taskId))
          /\ cancelledPending' = cancelledPending \cup
               (IF taskObj[taskId].status = "pending" THEN {taskId} ELSE {})
     ELSE Becomes(Cur) /\ UNCHANGED cancelledPending
  /\ UNCHANGED <<config, idleAfterCancel, deletedRunning>>

\* Mutant of CancelReturn: 1 whatever the task.
CancelReturn_One(taskId) == 1

\* cancel(taskId): the number it returns
CancelReturn(taskId) ==
  IF taskId \in tasks /\ taskObj[taskId].status \in ActiveStatuses THEN 1 ELSE 0

\* cancel(taskId), its return value dropped
Cancel(taskId) == CancelTask(taskId) /\ call' = NoCall

\* cancel(taskId), its return value kept by the caller
CancelReturning(taskId) ==
  /\ CancelTask(taskId)
  /\ call' = [fn |-> "cancel", args |-> <<taskId>>,
              result |-> <<CancelReturn(taskId)>>]

\* cancel(): what it does to the manager
CancelTasks ==
  /\ Becomes(CancelFrom(Cur, 1))
  /\ cancelledPending' = cancelledPending \cup
       {t \in tasks : taskObj[t].status = "pending"}
  /\ UNCHANGED <<config, idleAfterCancel, deletedRunning>>

\* cancel(), its return value dropped
CancelAll == CancelTasks /\ call' = NoCall

\* cancel(), its return value kept by the caller
CancelAllReturning ==
  /\ CancelTasks
  /\ call' = [fn |-> "cancel", args |-> <<>>, result |-> <<CancelCount(Cur, 1)>>]

\* waitForCompletion(taskId, timeout) called by waiter w, up to its return
\* or to the promise it awaits
WaitForCompletion(w, taskId, timeout) ==
  /\ waiters[w].state = "idle"
  /\ \A v \in Waiters : v < w => waiters[v].state # "idle"
  /\ LET waiting == [state |-> "blocked", task |-> taskId,
                     timer |-> FALSE, value |-> Undefined, by |-> Undefined]
         m == [Cur EXCEPT !.waiters[w] = waiting]
     IN IF taskId \notin tasks
        THEN Becomes(Resolve(m, w, "null", "absent"))
        ELSE IF taskObj[taskId].status \in TerminalStatuses
        THEN Becomes(Resolve(m, w, taskObj[taskId].status, "terminal"))
        ELSE Becomes([m EXCEPT !.completionResolvers[taskId] = w,
                               !.waiters[w].timer = timeout > 0])
  /\ call' = NoCall
  /\ UNCHANGED <<config, cancelledPending, idleAfterCancel, deletedRunning>>

\* The setTimeout callback of waiter w's call runs
WaitTimeout(w) ==
  /\ waiters[w].timer
  /\ LET taskId == waiters[w].task
         m == [Cur EXCEPT !.waiters[w].timer = FALSE,
                          !.completionResolvers[taskId] = NoWaiter]
     IN Becomes(Resolve(m, w,
          IF taskId \in tasks THEN taskObj[taskId].status ELSE "null",
          "timeout"))
  /\ call' = NoCall
  /\ UNCHANGED <<config, cancelledPending, idleAfterCancel, deletedRunning>>

\* cleanup()
Cleanup ==
  /\ Becomes([Cur EXCEPT !.startQueue = <<>>,
                         !.completionResolvers = [t \in TaskIds |-> NoWaiter],
                         !.tasks = {},
                         !.tasksBySessionId = [s \in Sessions |-> NoTask],
                         !.agentBySessionId = [s \in Sessions |-> NoAgent]])
  /\ call' = NoCall
  /\ UNCHANGED <<config, cancelledPending, idleAfterCancel, deletedRunning>>

\* The tasks and the sessions the inputs range over when session events are
\* delivered: a cancel may name a task that is not, or no longer, registered;
\* an event may carry no session, or one the manager never created.
EventTaskIds == 1..MaxEventTasks
EventSessions == EventTaskIds \cup {NoSession, ForeignSession}

Next ==
  \/ \E a \in LaunchAgents : Launch(a, MaxEventTasks)
  \/ \E t \in EventTaskIds, o \in {"ok", "noid", "error"} : CreateReturns(t, o)
  \/ \E t \in EventTaskIds : DelayElapses(t)
  \/ \E t \in EventTaskIds, o \in {"ok", "error", "timeout"} : PromptReturns(t, o)
  \/ \E s \in EventSessions, st \in {"idle", "busy"} : HandleSessionStatus(s, st)
  \/ \E t \in EventTaskIds, o \in {"ok", "error"}, h \in Histories :
       MessagesReturn(t, o, h)
  \/ \E s \in EventSessions : HandleSessionDeleted(s)
  \/ \E t \in EventTaskIds : Cancel(t)
  \/ CancelAll
  \/ Cleanup

Spec == Init /\ [][Next]_vars

\* The start queue and the start sequences alone: the host answers the
\* manager's calls and sends no session event.
QueueNext ==
  \/ \E a \in LaunchAgents : Launch(a, MaxTasks)
  \/ \E t \in TaskIds, o \in {"ok", "error"} : CreateReturns(t, o)
  \/ \E t \in TaskIds, o \in {"ok", "error"} : PromptReturns(t, o)
  \/ \E t \in TaskIds : Cancel(t)
  \/ CancelAll

QueueSpec == QueueInit /\ [][QueueNext]_vars

\* A start sequence resumes from the host call it awaits
HostAnswer ==
  \E t \in TaskIds, o \in {"ok", "error"} :
    CreateReturns(t, o) \/ PromptReturns(t, o)

\* Fairness: the host goes on answering the calls the start sequences await
\* (session.create and session.prompt return, fail or time out): as long as
\* one is awaited, one is answered.
HostAnswers == WF_vars(HostAnswer)

QueueLiveSpec == QueueInit /\ [][QueueNext]_vars /\ HostAnswers

\* The waiting callers: a task is launched, waited for, and ended by any of
\* its triggers.
WaitConfigs == {[ceiling |-> 1, tmux |-> FALSE, fallback |-> FALSE]}

WaitInit == Constructed(WaitConfigs)

WaitNext ==
  \/ \E a \in LaunchAgents : Launch(a, MaxEventTasks)
  \/ \E t \in EventTaskIds, o \in {"ok", "error"} : CreateReturns(t, o)
  \/ \E t \in EventTaskIds, o \in {"ok", "error"} : PromptReturns(t, o)
  \/ \E s \in EventTaskIds : HandleSessionStatus(s, "idle")
  \/ \E t \in EventTaskIds, h \in Histories : MessagesReturn(t, "ok", h)
  \/ \E s \in EventTaskIds : HandleSessionDeleted(s)
  \/ \E t \in EventTaskIds : Cancel(t)
  \/ \E w \in Waiters, t \in EventTaskIds, timeout \in {0, 1} :
       WaitForCompletion(w, t, timeout)
  \/ \E w \in Waiters : WaitTimeout(w)

WaitSpec == WaitInit /\ [][WaitNext]_vars

\* Fairness: the host answers the calls the manager awaits, and a timer
\* that was set runs out.
WaitAnswer ==
  \/ \E t \in EventTaskIds, o \in {"ok", "error"} :
       CreateReturns(t, o) \/ PromptReturns(t, o)
  \/ \E t \in EventTaskIds, h \in Histories : MessagesReturn(t, "ok", h)

WaitLiveSpec ==
  /\ WaitInit /\ [][WaitNext]_vars
  /\ WF_vars(WaitAnswer)
  /\ \A w \in Waiters : WF_vars(WaitTimeout(w))

\* isAgentAllowed(parentSessionId, requestedAgent), its return value kept
IsAgentAllowedReturning(parentSessionId, requestedAgent) ==
  /\ call' = [fn |-> "isAgentAllowed",
              args |-> <<parentSessionId, requestedAgent>>,
              result |-> <<IsAgentAllowed(parentSessionId, requestedAgent)>>]
  /\ UNCHANGED <<config, manager>>

\* getAllowedSubagents(parentSessionId), its return value kept
GetAllowedSubagentsReturning(parentSessionId) ==
  /\ call' = [fn |-> "getAllowedSubagents", args |-> <<parentSessionId>>,
              result |-> <<GetAllowedSubagents(parentSessionId)>>]
  /\ UNCHANGED <<config, manager>>

\* The agent types tasks are launched with and delegation is asked for: the
\* six of the table, one the table does not list, and one that names a
\* property of Object.prototype.
Roles ==
  {ORCHESTRATOR_NAME} \cup Range(SUBAGENT_NAMES) \cup {"reviewer", "constructor"}

\* Delegation: tasks of every agent type are started, and the delegation
\* rules of their sessions are asked for.
RulesNext ==
  \/ \E a \in Roles : Launch(a, MaxEventTasks)
  \/ \E t \in EventTaskIds : CreateReturns(t, "ok")
  \/ \E t \in EventTaskIds : PromptReturns(t, "ok")
  \/ \E s \in EventTaskIds \cup {ForeignSession}, a \in Roles :
       IsAgentAllowedReturning(s, a)
  \/ \E s \in EventTaskIds \cup {ForeignSession} :
       GetAllowedSubagentsReturning(s)

RulesSpec == WaitInit /\ [][RulesNext]_vars

\* Prompt delivery over the fallback chain: tasks of agents with a chain of
\* two models, with a chain that starts with three malformed identifiers,
\* with a chain of one malformed identifier, and with no chain.
FallbackConfigs ==
  {[ceiling |-> 1, tmux |-> tmux, fallback |-> TRUE] : tmux \in BOOLEAN}
FallbackAgents == {"explorer", "fixer", "oracle", "librarian"}

FallbackInit == Constructed(FallbackConfigs)

FallbackNext ==
  \/ \E a \in FallbackAgents : Launch(a, MaxEventTasks)
  \/ \E t \in EventTaskIds : CreateReturns(t, "ok")
  \/ \E t \in EventTaskIds : DelayElapses(t)
  \/ \E t \in EventTaskIds, o \in {"ok", "error", "timeout"} : PromptReturns(t, o)
  \/ \E s \in EventTaskIds : HandleSessionStatus(s, "idle")
  \/ \E t \in EventTaskIds, o \in {"ok", "error"}, h \in Histories :
       MessagesReturn(t, o, h)

FallbackSpec == FallbackInit /\ [][FallbackNext]_vars

\* Result extraction: a task runs, its session goes idle, is cancelled or
\* deleted, and the host answers session.messages with every history of up
\* to MaxMessages messages.
MessagePool ==
  { [role |-> "user", parts |-> <<[type |-> "text", text |-> "Q"]>>],
    [role |-> "assistant", parts |-> <<[type |-> "text", text |-> "A"]>>],
    [role |-> "assistant", parts |-> <<[type |-> "text", text |-> "B"]>>],
    [role |-> "assistant",
     parts |-> <<[type |-> "tool", text |-> "T"],
                 [type |-> "reasoning", text |-> "R"],
                 [type |-> "text", text |-> ""]>>] }

ExtractNext ==
  \/ \E a \in LaunchAgents : Launch(a, MaxEventTasks)
  \/ \E t \in EventTaskIds : CreateReturns(t, "ok")
  \/ \E t \in EventTaskIds : PromptReturns(t, "ok")
  \/ \E s \in EventTaskIds : HandleSessionStatus(s, "idle")
  \/ \E t \in EventTaskIds, o \in {"ok", "error"},
        h \in SeqsUpTo(MessagePool, MaxMessages) : MessagesReturnKept(t, o, h)
  \/ \E s \in EventTaskIds : HandleSessionDeleted(s)
  \/ \E t \in EventTaskIds : Cancel(t)

ExtractSpec == WaitInit /\ [][ExtractNext]_vars

\* The two functions on model identifiers, applied to every configuration
\* and every identifier up to MaxChain entries or characters.
ChainModels == {ModelPA, ModelQB, NoModel}
ModelChars == {"p", "/"}

ResolveFallbackChainReturning(primary, configuredChain) ==
  /\ call' = [fn |-> "resolveFallbackChain",
              args |-> <<primary, configuredChain>>,
              result |-> <<ResolveChain(primary, configuredChain)>>]
  /\ UNCHANGED <<config, manager>>

ParseModelReferenceReturning(model) ==
  /\ call' = [fn |-> "parseModelReference", args |-> <<model>>,
              result |-> <<ParseModelReference(model)>>]
  /\ UNCHANGED <<config, manager>>

ModelsNext ==
  \/ \E primary \in ChainModels, configuredChain \in SeqsUpTo(ChainModels, MaxChain) :
       ResolveFallbackChainReturning(primary, configuredChain)
  \/ \E model \in SeqsUpTo(ModelChars, MaxChain) :
       ParseModelReferenceReturning(model)

ModelsSpec == WaitInit /\ [][ModelsNext]_vars

\* The cancelling callers: tasks are launched, one of them is waited for,
\* and cancel is called with and without an identifier, its return value
\* kept.
ApiTaskIds == 1..MaxApiTasks

ApiNext ==
  \/ \E a \in LaunchAgents : Launch(a, MaxApiTasks)
  \/ \E t \in ApiTaskIds, o \in {"ok", "error"} : CreateReturns(t, o)
  \/ \E t \in ApiTaskIds, o \in {"ok", "error"} : PromptReturns(t, o)
  \/ \E t \in ApiTaskIds : WaitForCompletion(1, t, 0)
  \/ \E t \in ApiTaskIds \cup {MaxApiTasks + 1} : CancelReturning(t)
  \/ CancelAllReturning
  \/ Cleanup

ApiSpec == WaitInit /\ [][ApiNext]_vars

\* The host answers a prompt whose attempt the manager gave up at the
\* timeout: the request was not withdrawn, and the race is over, so the
\* answer changes nothing in the manager.
PromptSettlesLate(t, i) ==
  /\ i \in 1..Len(prompts[t])
  /\ prompts[t][i].outcome = "timeout"
  /\ prompts' = [prompts EXCEPT ![t][i].outcome = "late"]
  /\ call' = NoCall
  /\ UNCHANGED <<taskObj, tasks, tasksBySessionId, agentBySessionId, startQueue,
                 activeStarts, completionResolvers, waiters, config, start,
                 fetching, notifications, aborted, admitted, cancelledPending,
                 idleAfterCancel, deletedRunning>>

\* Prompt delivery as the host sees it: the requests it has received and
\* not answered yet, while the session's events are delivered.
AttemptNext ==
  \/ \E a \in FallbackAgents : Launch(a, MaxEventTasks)
  \/ \E t \in EventTaskIds : CreateReturns(t, "ok")
  \/ \E t \in EventTaskIds : DelayElapses(t)
  \/ \E t \in EventTaskIds, o \in {"ok", "error", "timeout"} : PromptReturns(t, o)
  \/ \E t \in EventTaskIds, i \in 1..MaxChain + 1 : PromptSettlesLate(t, i)
  \/ \E s \in EventTaskIds : HandleSessionStatus(s, "idle")
  \/ \E t \in EventTaskIds, o \in {"ok", "error"}, h \in Histories :
       MessagesReturn(t, o, h)

AttemptSpec == FallbackInit /\ [][AttemptNext]_vars

\* The host's session events: for the sessions of the manager's tasks,
\* tracked or no longer, for a session the manager never created, and with
\* no session identifier, while tasks are queued, started, waited for and
\* completed.
ApiSessions == ApiTaskIds \cup {NoSession, ForeignSession}

EventNext ==
  \/ \E a \in LaunchAgents : Launch(a, MaxApiTasks)
  \/ \E t \in ApiTaskIds : CreateReturns(t, "ok")
  \/ \E t \in ApiTaskIds : PromptReturns(t, "ok")
  \/ \E t \in ApiTaskIds : WaitForCompletion(1, t, 0)
  \/ \E s \in ApiSessions, st \in {"idle", "busy"} : HandleSessionStatusOf(s, st)
  \/ \E s \in ApiSessions : HandleSessionDeletedOf(s)
  \/ \E t \in ApiTaskIds : MessagesReturn(t, "ok", <<>>)

EventSpec == WaitInit /\ [][EventNext]_vars

\* History retrieval: a task is started, its session goes idle, is deleted
\* or the task is cancelled, and the host answers session.messages with a
\* history or with an error.
FetchNext ==
  \/ \E a \in LaunchAgents : Launch(a, MaxEventTasks)
  \/ \E t \in EventTaskIds : CreateReturns(t, "ok")
  \/ \E t \in EventTaskIds, o \in {"ok", "error"} : PromptReturns(t, o)
  \/ \E s \in EventTaskIds : HandleSessionStatus(s, "idle")
  \/ \E t \in EventTaskIds, o \in {"ok", "error"}, h \in Histories :
       MessagesReturnKept(t, o, h)
  \/ \E s \in EventTaskIds : HandleSessionDeleted(s)
  \/ \E t \in EventTaskIds : Cancel(t)

FetchSpec == WaitInit /\ [][FetchNext]_vars

\* ----------------------------------------------------------------- claims
InFlight(st) == {t \in TaskIds : st[t].pc \in {"create", "delay", "prompt"}}
Starting == {t \in TaskIds : taskObj[t].status = "starting"}
AdmittedIds == {admitted[i].id : i \in 1..Len(admitted)}

\* C1: once a task's status is completed, failed or cancelled, its status,
\* result and error never change again.
C1_TerminalImmutable ==
  [][\A t \in TaskIds :
       taskObj[t].status \in TerminalStatuses =>
         /\ taskObj'[t].status = taskObj[t].status
         /\ taskObj'[t].result = taskObj[t].result
         /\ taskObj'[t].error = taskObj[t].error]_vars

\* C2: no task has both a result and an error, and a pending, starting or
\* running task has neither.
C2_ResultXorError ==
  \A t \in TaskIds :
    /\ ~(taskObj[t].result # Undefined /\ taskObj[t].error # Undefined)
    /\ taskObj[t].status \in ActiveStatuses =>
         taskObj[t].result = Undefined /\ taskObj[t].error = Undefined

\* C3: the task launch() creates is registered and has status pending when
\* launch() returns.
C3_LaunchReturnsPending ==
  [][\A t \in TaskIds :
       taskObj[t].status = "none" /\ taskObj'[t].status # "none" =>
         taskObj'[t].status = "pending" /\ t \in tasks']_vars

\* C4: at most maxConcurrentStarts tasks are starting, activeStarts stays in
\* 0..maxConcurrentStarts, and a task goes from pending to starting only when
\* fewer than maxConcurrentStarts other start sequences are in flight.
C4_Ceiling ==
  /\ [](/\ Cardinality(Starting) <= maxConcurrentStarts
        /\ activeStarts \in 0..maxConcurrentStarts)
  /\ [][\A t \in TaskIds :
          taskObj[t].status = "pending" /\ taskObj'[t].status = "starting" =>
            Cardinality(InFlight(start') \ {t}) < maxConcurrentStarts]_vars

C4_Witness ==
  /\ maxConcurrentStarts = 2
  /\ activeStarts = maxConcurrentStarts
  /\ Cardinality(Starting) = maxConcurrentStarts
  /\ Len(startQueue) > 0

\* C5: tasks are admitted in launch order: of two admitted tasks, the one
\* launched first went from pending to starting first.
C5_FifoAdmission ==
  \A i, j \in 1..Len(admitted) :
    i < j => admitted[i].id < admitted[j].id

\* Two tasks that waited in the queue together have both been admitted.
C5_Witness ==
  \E i, j \in 1..Len(admitted) :
    /\ i < j
    /\ admitted[i].by = "finally"
    /\ admitted[j].id \in Range(admitted[i].behind)

\* C6: when every host call is answered, a registered pending task
\* eventually leaves pending (admitted or cancelled) or is removed.
C6_EventualAdmission ==
  \A t \in TaskIds :
    (t \in tasks /\ taskObj[t].status = "pending")
      ~> (taskObj[t].status # "pending" \/ t \notin tasks)

\* A task was admitted by the queue processing that ends a start sequence.
C6_Witness ==
  \E i \in 1..Len(admitted) :
    admitted[i].by = "finally" /\ taskObj[admitted[i].id].status # "pending"

\* C7: a task cancelled while pending is out of the start queue and is never
\* started: it never becomes starting and no session is created for it.
C7_CancelPending ==
  \A t \in cancelledPending :
    /\ t \notin Range(startQueue)
    /\ t \notin AdmittedIds
    /\ taskObj[t].status = "cancelled"
    /\ start[t].pc = "idle"
    /\ taskObj[t].sessionId = NoSession

\* A task was cancelled while pending and a task launched after it has
\* been admitted since.
C7_Witness ==
  \E t \in cancelledPending : \E u \in AdmittedIds : u > t

\* C8: an idle event for the session of a task that cancel() cancelled while
\* it was running is ignored: status, error and result stay as they are (the
\* result unset) and no result extraction is started.
C8_IdleAfterCancelIgnored ==
  [][\A t \in idleAfterCancel' \ idleAfterCancel :
       /\ taskObj'[t] = taskObj[t]
       /\ taskObj[t].status = "cancelled"
       /\ taskObj[t].error = "Cancelled by user"
       /\ taskObj[t].result = Undefined
       /\ fetching' = fetching]_vars

C8_Witness == idleAfterCancel # {}

\* C9: a task whose session was deleted while it was running (its prompt
\* delivered) is cancelled with error "Session deleted", has no index entry,
\* and stays so when an idle event for its session is delivered too.
C9_DeletionCancels ==
  \A t \in deletedRunning :
    /\ taskObj[t].status = "cancelled"
    /\ taskObj[t].error = "Session deleted"
    /\ tasksBySessionId[taskObj[t].sessionId] = NoTask
    /\ agentBySessionId[taskObj[t].sessionId] = NoAgent

\* C10: the parent is notified exactly once for each task that has reached a
\* terminal state, and never twice.
C10_NotifiedOnce ==
  \A t \in TaskIds :
    /\ Len(notifications[t]) <= 1
    /\ taskObj[t].status \in TerminalStatuses => Len(notifications[t]) = 1

\* C11: a caller blocked in waitForCompletion is eventually resumed once
\* its task has reached a terminal state (by completion, failure, cancel or
\* session deletion) or once its wait has a timeout running.
C11_WaiterResumed ==
  \A w \in Waiters :
    (/\ waiters[w].state = "blocked"
     /\ \/ taskObj[waiters[w].task].status \in TerminalStatuses
        \/ waiters[w].timer)
      ~> (waiters[w].state # "blocked")

\* C12: waitForCompletion returns the task only when the task has reached a
\* terminal state, and null when the task is not found or when the timeout
\* runs out before the task is terminal.
C12_WaitReturnsTerminalOrNull ==
  \A w \in Waiters :
    waiters[w].state = "returned" =>
      /\ waiters[w].value \in TerminalStatuses \cup {"null"}
      /\ waiters[w].by = "absent" => waiters[w].value = "null"

\* The agent types the delegation table gives an empty list
LeafRoles ==
  {r \in DOMAIN SUBAGENT_DELEGATION_RULES : SUBAGENT_DELEGATION_RULES[r] = <<>>}

\* The last call asked about a tracked session: the agent type that owns it
CallOwner ==
  IF /\ call.fn \in {"isAgentAllowed", "getAllowedSubagents"}
     /\ call.args[1] \in Sessions
  THEN agentBySessionId[call.args[1]] ELSE NoAgent

\* C13: for a session owned by an agent type the delegation table does not
\* list, getAllowedSubagents returns exactly <<"explorer">> and
\* isAgentAllowed is true for "explorer" and false for every other agent.
C13_UnlistedRoleExplorerOnly ==
  (CallOwner # NoAgent /\ CallOwner \notin DOMAIN SUBAGENT_DELEGATION_RULES) =>
    IF call.fn = "getAllowedSubagents"
    THEN call.result[1] = Array(<<"explorer">>)
    ELSE call.result[1] = (IF call.args[2] = "explorer" THEN "true" ELSE "false")

\* C14: for a tracked session owned by an agent type with an empty list,
\* isAgentAllowed is false whatever agent is asked for; the prompts sent for
\* a task of such a type have background_task and task disabled, those sent
\* for a task of any other type have both enabled.
C14_LeafRolesCannotDelegate ==
  /\ (call.fn = "isAgentAllowed" /\ CallOwner \in LeafRoles) =>
        call.result[1] = "false"
  /\ \A t \in TaskIds : \A i \in 1..Len(prompts[t]) :
        prompts[t][i].tools =
          IF taskObj[t].agent \in LeafRoles
          THEN [background_task |-> FALSE, task |-> FALSE]
          ELSE [background_task |-> TRUE, task |-> TRUE]

\* isAgentAllowed was asked for the tracked session of a task of a leaf
\* type, for which a prompt has been sent.
C14_Witness ==
  /\ call.fn = "isAgentAllowed"
  /\ CallOwner = "fixer"
  /\ call.args[2] = "explorer"
  /\ \E t \in TaskIds : taskObj[t].agent = "fixer" /\ Len(prompts[t]) > 0

\* The first place of x in seq
FirstIndex(seq, x) ==
  CHOOSE i \in 1..Len(seq) : seq[i] = x /\ \A j \in 1..(i - 1) : seq[j] # x

\* C15: the resolved chain has no duplicates, holds exactly the non-null
\* models of [primary] followed by the configured chain, in the order of
\* their first occurrence; primary p/a with chain [p/a, q/b, q/b] gives
\* [p/a, q/b].
C15_ChainDeduplicated ==
  call.fn = "resolveFallbackChain" =>
    LET input == <<call.args[1]>> \o call.args[2]
        chain == call.result[1]
    IN /\ \A i, j \in 1..Len(chain) : i # j => chain[i] # chain[j]
       /\ Range(chain) = Range(input) \ {NoModel}
       /\ \A i, j \in 1..Len(chain) :
            i < j => FirstIndex(input, chain[i]) < FirstIndex(input, chain[j])
       /\ call.args = <<ModelPA, <<ModelPA, ModelQB, ModelQB>>>> =>
            chain = <<ModelPA, ModelQB>>

\* The chain of the example was resolved.
C15_Witness ==
  /\ call.fn = "resolveFallbackChain"
  /\ call.args = <<ModelPA, <<ModelPA, ModelQB, ModelQB>>>>

\* An identifier whose separator is missing, at the start or at the end
Malformed(model) ==
  /\ model # NoModel
  /\ \/ "/" \notin Range(model)
     \/ model[1] = "/"
     \/ model[Len(model)] = "/"

InvalidFormatError(model) ==
  ModelStr(model) \o ": Invalid fallback model format: " \o ModelStr(model)

\* The prompts sent for task t with model model
PromptsWith(t, model) ==
  {i \in 1..Len(prompts[t]) : prompts[t][i].model = model}

\* C16: no prompt is sent with a malformed identifier; when a prompt is in
\* flight, every malformed identifier before it in the chain has its error
\* recorded, in its place, and the loop has gone on to this candidate; a
\* task whose start fails has had a prompt sent, and failed, for every
\* well-formed candidate of its chain.
C16_MalformedSkipped ==
  \A t \in TaskIds :
    LET models == AttemptModels(taskObj[t].agent) IN
    /\ \A i \in 1..Len(prompts[t]) : ~Malformed(prompts[t][i].model)
    /\ start[t].pc = "prompt" =>
         /\ ~Malformed(models[start[t].attempt])
         /\ Len(start[t].errors) = start[t].attempt - 1
         /\ \A j \in 1..(start[t].attempt - 1) :
              Malformed(models[j]) =>
                /\ start[t].errors[j] = InvalidFormatError(models[j])
                /\ PromptsWith(t, models[j]) = {}
    /\ (taskObj[t].status = "failed" /\ taskObj[t].error # "host error") =>
         \A j \in 1..Len(models) :
           ~Malformed(models[j]) =>
             \E i \in PromptsWith(t, models[j]) :
               prompts[t][i].outcome \in {"error", "timeout"}

\* The prompt of the one well-formed candidate is in flight behind three
\* malformed identifiers.
C16_Witness ==
  \E t \in TaskIds :
    /\ start[t].pc = "prompt"
    /\ start[t].attempt = 4
    /\ Malformed(AttemptModels(taskObj[t].agent)[1])
    /\ prompts[t][1].model = ModelQB

\* The place of a model in the chain of task t's agent
ChainIndex(t, model) ==
  CHOOSE j \in 1..Len(AttemptModels(taskObj[t].agent)) :
    AttemptModels(taskObj[t].agent)[j] = model

\* C17: the prompts of a task go through its chain in order; a prompt that
\* succeeded is the last one sent and ends the start sequence; and at the
\* moment a prompt succeeds the task is running with no error recorded.
C17_FirstSuccessWins ==
  /\ [](\A t \in TaskIds :
          /\ \A i, j \in 1..Len(prompts[t]) :
               i < j => ChainIndex(t, prompts[t][i].model)
                          < ChainIndex(t, prompts[t][j].model)
          /\ \A i \in 1..Len(prompts[t]) :
               prompts[t][i].outcome = "ok" =>
                 i = Len(prompts[t]) /\ start[t].pc = "done")
  /\ [][\A t \in TaskIds :
          (/\ Len(prompts'[t]) > 0
           /\ prompts'[t][Len(prompts'[t])].outcome = "ok"
           /\ prompts'[t] # prompts[t]) =>
            /\ taskObj'[t].status = "running"
            /\ taskObj'[t].error = Undefined]_vars

RECURSIVE Flatten(_)
Flatten(seqs) == IF seqs = <<>> THEN <<>> ELSE Head(seqs) \o Flatten(Tail(seqs))

\* The non-empty text and reasoning fragments of the assistant's messages,
\* in message order, then part order
AssistantFragments(messages) ==
  LET Fragment(part) == part.type \in {"text", "reasoning"} /\ part.text # ""
      Texts(parts) == [k \in 1..Len(parts) |-> parts[k].text]
  IN Flatten([i \in 1..Len(messages) |->
                IF messages[i].role = "assistant"
                THEN Texts(SelectSeq(messages[i].parts, Fragment))
                ELSE <<>>])

\* C18: when the host answers the history fetch of a running task, the task
\* becomes completed and its result is the assistant's fragments joined by a
\* blank line, or "(No output)" when there is none; two assistant messages
\* "A" and "B" give "A\n\nB".
C18_ResultIsAssistantText ==
  [][\A t \in TaskIds :
       (/\ call'.fn = "session.messages"
        /\ call'.args = <<t, "ok">>
        /\ fetching'[t] < fetching[t]
        /\ taskObj[t].status = "running") =>
         LET fragments == AssistantFragments(call'.result[1]) IN
         /\ taskObj'[t].status = "completed"
         /\ taskObj'[t].result =
              IF fragments = <<>> THEN "(No output)"
              ELSE JoinStr(fragments, "\n\n")
         /\ fragments = <<"A", "B">> => taskObj'[t].result = "A\n\nB"]_vars

\* The history of the example was fetched for a task that is completed
\* with it.
C18_Witness ==
  /\ call.fn = "session.messages"
  /\ call.args[2] = "ok"
  /\ Len(call.result[1]) = 2
  /\ AssistantFragments(call.result[1]) = <<"A", "B">>
  /\ taskObj[call.args[1]].status = "completed"
  /\ taskObj[call.args[1]].result = "A\n\nB"
  /\ deletedRunning = {}
  /\ Len(notifications[call.args[1]]) = 1

\* C19: cancel(taskId) for a task that is not in the registry, or that is
\* terminal, returns 0 and changes nothing: registry, indexes, start queue,
\* waiters and counter stay as they are and the host gets no call.
C19_CancelNoOp ==
  [][(/\ call'.fn = "cancel"
      /\ Len(call'.args) = 1
      /\ \/ call'.args[1] \notin tasks
         \/ taskObj[call'.args[1]].status \in TerminalStatuses) =>
       /\ call'.result[1] = 0
       /\ manager' = manager]_vars

\* cancel(taskId) returned 0 for a terminal task of the registry while
\* another task waits in the queue behind a start in flight and a caller
\* is blocked.
C19_Witness ==
  /\ call.fn = "cancel"
  /\ Len(call.args) = 1
  /\ call.result[1] = 0
  /\ call.args[1] \in tasks
  /\ taskObj[call.args[1]].status \in TerminalStatuses
  /\ Len(startQueue) > 0
  /\ activeStarts > 0
  /\ waiters[1].state = "blocked"

\* C20: cancel() returns the number of tasks of the registry that were
\* pending, starting or running when it was called, and leaves every task
\* of the registry terminal and the start queue empty.
C20_CancelAllCounts ==
  [][(call'.fn = "cancel" /\ call'.args = <<>>) =>
       /\ call'.result[1] =
            Cardinality({t \in tasks : taskObj[t].status \in ActiveStatuses})
       /\ \A t \in tasks' : taskObj'[t].status \in TerminalStatuses
       /\ startQueue' = <<>>]_vars

\* cancel() cancelled every task of the registry, a pending one and one
\* whose start is in flight among them.
C20_Witness ==
  /\ call.fn = "cancel"
  /\ call.args = <<>>
  /\ call.result[1] = MaxApiTasks
  /\ Cardinality(tasks) = MaxApiTasks
  /\ cancelledPending # {}
  /\ activeStarts > 0

\* The prompts of task t the host has answered with success
Succeeded(t) == {i \in 1..Len(prompts[t]) : prompts[t][i].outcome = "ok"}

\* C21: a task is running only after one of its prompts has succeeded, and a
\* start sequence that ends in failure (session creation failed, or every
\* attempt of the chain failed) takes the task from starting to failed.
C21_RunningAfterPrompt ==
  /\ [](\A t \in TaskIds : taskObj[t].status = "running" => Succeeded(t) # {})
  /\ [][\A t \in TaskIds :
          (/\ t \in InFlight(start)
           /\ start'[t].pc = "done"
           /\ taskObj[t].status # "failed"
           /\ taskObj'[t].status = "failed") =>
            taskObj[t].status = "starting"]_vars

\* The prompts of task t the host has received and not answered
Outstanding(t) ==
  {i \in 1..Len(prompts[t]) : prompts[t][i].outcome \in {"pending", "timeout"}}

\* C22: at most one prompt of a task is outstanding at the host, also after
\* an attempt has timed out and the next model of the chain is tried.
C22_OnePromptInFlight ==
  \A t \in TaskIds : Cardinality(Outstanding(t)) <= 1

\* The entry an attempt with model model that failed leaves in the error of
\* task t: the identifier, then the message of the failure
AttemptEntry(t, model) ==
  LET identifier == IF model = NoModel THEN "default-model" ELSE ModelStr(model)
      outcomes == {prompts[t][i].outcome : i \in PromptsWith(t, model)}
  IN identifier \o ": " \o
       (IF Malformed(model) THEN "Invalid fallback model format: " \o ModelStr(model)
        ELSE IF "error" \in outcomes THEN "host error"
        ELSE "Prompt timed out after " \o ToString(FALLBACK_FAILOVER_TIMEOUT_MS)
               \o "ms")

\* The start sequence of task t is over and every attempt of its chain failed
EveryAttemptFailed(t) ==
  /\ start[t].pc = "done"
  /\ taskObj[t].sessionId # NoSession
  /\ Succeeded(t) = {}

\* C23: when every attempt of the chain has failed, the task is failed and
\* its error lists, in chain order, one entry per attempted model with the
\* model's identifier and the message of its failure.
C23_ExhaustionFails ==
  \A t \in TaskIds :
    EveryAttemptFailed(t) =>
      LET models == AttemptModels(taskObj[t].agent) IN
      /\ taskObj[t].status = "failed"
      /\ taskObj[t].error =
           "All fallback models failed. "
             \o JoinStr([j \in 1..Len(models) |-> AttemptEntry(t, models[j])], " | ")

\* C24: with fallback disabled a start sequence sends exactly one prompt,
\* with no model taken from the agent's chain, and that attempt never ends
\* by a timeout.
C24_FallbackDisabled ==
  ~fallbackEnabled =>
    \A t \in TaskIds :
      /\ Len(prompts[t]) <= 1
      /\ \A i \in 1..Len(prompts[t]) :
           /\ prompts[t][i].model = NoModel
           /\ prompts[t][i].outcome # "timeout"
      /\ (\/ start[t].pc = "prompt"
          \/ start[t].pc = "done" /\ taskObj[t].sessionId # NoSession) =>
           Len(prompts[t]) = 1

\* With fallback disabled, the one prompt of a task whose agent has a chain
\* configured failed, and so did the task.
C24_Witness ==
  /\ ~fallbackEnabled
  /\ \E t \in TaskIds :
       /\ ConfiguredChain(taskObj[t].agent) # <<>>
       /\ start[t].pc = "done"
       /\ Len(prompts[t]) = 1
       /\ prompts[t][1].outcome = "error"
       /\ taskObj[t].status = "failed"
       /\ taskObj[t].error = "All fallback models failed. default-model: host error"

\* C25: the abort of its session has been requested for every task that has
\* a session and is in a terminal state, however it got there.
C25_SessionAborted ==
  \A t \in TaskIds :
    (taskObj[t].sessionId # NoSession /\ taskObj[t].status \in TerminalStatuses) =>
      taskObj[t].sessionId \in aborted

\* C26: the two session indexes have the same keys; a registered task with
\* a session has both entries while its status is not terminal and neither
\* once it is.
C26_IndexesConsistent ==
  /\ \A s \in Sessions :
       tasksBySessionId[s] # NoTask <=> agentBySessionId[s] # NoAgent
  /\ \A t \in tasks :
       LET sid == taskObj[t].sessionId IN
       sid # NoSession =>
         /\ taskObj[t].status \in ActiveStatuses =>
              tasksBySessionId[sid] = t /\ agentBySessionId[sid] = taskObj[t].agent
         /\ taskObj[t].status \in TerminalStatuses =>
              tasksBySessionId[sid] = NoTask /\ agentBySessionId[sid] = NoAgent

\* A registered task was completed from its session's history: it keeps its
\* session and both index entries are gone.
C26_Witness ==
  \E t \in tasks :
    /\ taskObj[t].status = "completed"
    /\ taskObj[t].sessionId = t
    /\ tasksBySessionId[t] = NoTask
    /\ agentBySessionId[t] = NoAgent

\* C27: the start queue holds the registered tasks whose status is pending,
\* and no others, each of them once.
C27_QueueIsPending ==
  /\ Range(startQueue) = {t \in tasks : taskObj[t].status = "pending"}
  /\ \A i, j \in 1..Len(startQueue) : startQueue[i] = startQueue[j] => i = j
  /\ \A i \in 1..Len(startQueue) : taskObj[startQueue[i]].status = "pending"

\* A task waits in the queue behind a start in flight, after the task that
\* waited in front of it was cancelled.
C27_Witness ==
  /\ Len(startQueue) = 1
  /\ activeStarts = maxConcurrentStarts
  /\ \E t \in cancelledPending : t < startQueue[1]

\* C28: activeStarts is the number of start sequences that have begun and
\* not ended yet, whichever way the others ended; it is 0 when none is in
\* flight.
C28_CounterBalanced ==
  activeStarts = Cardinality(InFlight(start))

\* No start is in flight and the counter is back to 0, after a start that
\* failed at session creation, a start that succeeded, and the cancel of a
\* task that was still queued.
C28_Witness ==
  /\ activeStarts = 0
  /\ cancelledPending # {}
  /\ \E t, u \in TaskIds :
       /\ start[t].pc = "done" /\ taskObj[t].status = "failed"
       /\ taskObj[t].sessionId = NoSession
       /\ start[u].pc = "done" /\ taskObj[u].status = "running"

Untracked(sessionId) ==
  sessionId \notin Sessions \/ tasksBySessionId[sessionId] = NoTask

\* C30: a status or deletion event with no session identifier, or with one
\* the session index does not hold, changes nothing: the tasks, the
\* registry, both indexes, the queue, the waiters and their resolvers, the
\* counter and the start sequences stay as they are, and no host call is
\* made.
C30_UntrackedEventIgnored ==
  [][(/\ call'.fn \in {"handleSessionStatus", "handleSessionDeleted"}
      /\ Untracked(call'.args[1])) =>
       /\ UNCHANGED <<taskObj, tasks, tasksBySessionId, agentBySessionId,
                      startQueue, completionResolvers, waiters, activeStarts,
                      start>>
       /\ UNCHANGED <<fetching, aborted, prompts, notifications>>]_vars

\* An idle event came for the session of a task that is over, while another
\* task runs with its session tracked and a caller waits.
C30_Witness ==
  /\ call.fn = "handleSessionStatus"
  /\ call.args[2] = "idle"
  /\ \E t, u \in tasks :
       /\ taskObj[t].sessionId = call.args[1]
       /\ taskObj[t].status \in TerminalStatuses
       /\ taskObj[u].status = "running"
       /\ tasksBySessionId[u] = u
  /\ \E w \in Waiters : waiters[w].state = "blocked"

\* C31: when session.messages fails, the task it was called for is failed,
\* its error is the message of that failure, and it has no result.
C31_FetchFailureFails ==
  [][(call'.fn = "session.messages" /\ call'.args[2] = "error") =>
       LET t == call'.args[1] IN
       /\ taskObj'[t].status = "failed"
       /\ taskObj'[t].error = "host error"
       /\ taskObj'[t].result = Undefined]_vars

\* The startTask() calls made for task t, each of which calls session.create
\* once
StartsOf(t) == {i \in 1..Len(admitted) : admitted[i].id = t}

\* C32: startTask is called at most once for a task, so session.create is
\* called at most once for it, and a task's sessionId, once set, stays as it
\* is.
C32_StartedOnce ==
  /\ [](\A t \in TaskIds : Cardinality(StartsOf(t)) <= 1)
  /\ [][\A t \in TaskIds :
          taskObj[t].sessionId # NoSession =>
            taskObj'[t].sessionId = taskObj[t].sessionId]_vars

\* Every task has been started, one of them when another's start ended; one
\* has its session and one failed at session creation.
C32_Witness ==
  /\ \A t \in TaskIds : Cardinality(StartsOf(t)) = 1
  /\ \E i \in 1..Len(admitted) : admitted[i].by = "finally"
  /\ \E t, u \in TaskIds :
       /\ taskObj[t].sessionId = t
       /\ taskObj[u].status = "failed" /\ taskObj[u].sessionId = NoSession

\* What the comment above SUBAGENT_DELEGATION_RULES says each agent type
\* can spawn
DocumentedRules(agentName) ==
  CASE agentName = ORCHESTRATOR_NAME -> Range(SUBAGENT_NAMES)
    [] agentName = "designer" -> {"explorer"}
    [] OTHER -> {}

\* C33: for the tracked session of a task of one of the six agent types of
\* the table, isAgentAllowed is true exactly for the agents the type can
\* spawn: all five subagents for orchestrator, explorer for designer, none
\* for explorer, librarian, oracle and fixer; and the prompts of a designer
\* task have the delegation tools enabled.
C33_DesignerSpawnsExplorer ==
  /\ (call.fn = "isAgentAllowed" /\ CallOwner \in DOMAIN SUBAGENT_DELEGATION_RULES) =>
        call.result[1] =
          (IF call.args[2] \in DocumentedRules(CallOwner) THEN "true" ELSE "false")
  /\ \A t \in TaskIds : \A i \in 1..Len(prompts[t]) :
        taskObj[t].agent = "designer" =>
          prompts[t][i].tools = [background_task |-> TRUE, task |-> TRUE]

\* The last call asked about a session the agent index does not hold
CallUntracked ==
  /\ call.fn \in {"isAgentAllowed", "getAllowedSubagents"}
  /\ \/ call.args[1] \notin Sessions
     \/ agentBySessionId[call.args[1]] = NoAgent

\* C34: for a parent session the agent index does not hold, isAgentAllowed
\* is true exactly for the five subagents of the orchestrator's roster, and
\* getAllowedSubagents returns that roster.
C34_UntrackedIsOrchestrator ==
  CallUntracked =>
    IF call.fn = "getAllowedSubagents"
    THEN call.result[1] = Array(SUBAGENT_NAMES)
    ELSE call.result[1] =
           (IF call.args[2] \in Range(SUBAGENT_NAMES) THEN "true" ELSE "false")

\* isAgentAllowed was asked, and answered true, for a session the manager
\* never created, while the session of a fixer task is indexed.
C34_Witness ==
  /\ call.fn = "isAgentAllowed"
  /\ call.args = <<ForeignSession, "fixer">>
  /\ call.result[1] = "true"
  /\ \E s \in Sessions : agentBySessionId[s] = "fixer"

====
